---------------------------- MODULE Spec2Model ----------------------------
(***************************************************************************)
(* blight-notify (src/src/main.rs): a handler invoked by a polling file    *)
(* watcher turns brightness changes into f64 fractions on an mpsc channel; *)
(* the loop of main coalesces bursts of fractions and calls the notifier.  *)
(*                                                                         *)
(* Two specifications:                                                     *)
(*   Spec     the daemon: startup, handler (poll thread), coalescer loop   *)
(*   SpecNum  the arithmetic of handler and main on one pair of file       *)
(*            contents: b / max in f64, then (fval * 100.) as u8           *)
(***************************************************************************)
EXTENDS Integers, Sequences, FiniteSets, TLC

(***************************************************************************)
(* Bounds of the model                                                     *)
(***************************************************************************)
MaxLevel   == 1    \* numbers the handler reads from the files under Spec
MaxChan    == 2    \* values queued in the (unbounded) channel at one time
NumDevices == 2    \* entries read_dir can list under /sys/class/backlight
MaxRaw     == 50   \* file contents under SpecNum: 0..MaxRaw
MaxPaths   == 2    \* paths carried by one change event
MaxEvents  == 4    \* handler invocations of a run under SpecTrace
MaxArrivals == 4   \* values of an arrival schedule under SpecSched
MaxTick    == 12   \* latest arrival of a schedule, in sleeps of 150 ms

(***************************************************************************)
(* Program constants                                                       *)
(***************************************************************************)
DrainItersOffByOne == 10 + 1   \* an off-by-one drain: (0..=10)
DrainIters     == 10       \* (0..10)
NotificationId == 696969   \* .id(696969)
DefaultTimeout == 1000     \* default = "1000"
U8Max          == 255      \* saturation bound of `as u8`

(***************************************************************************)
(* Option<T>: None is <<>>, Some(t) is <<t>>                               *)
(***************************************************************************)
None      == <<>>
Some(t)   == <<t>>
IsSome(o) == o # <<>>

(***************************************************************************)
(* IEEE-754 binary64, non-negative values.  A finite non-zero value is     *)
(*   mant * 2^(exp - 52),  mant = m[1]*2^48 + m[2]*2^24 + m[3] in          *)
(*   [2^52, 2^53), i.e. m[1] in 16..31 and m[2], m[3] in 0..2^24-1.        *)
(***************************************************************************)
RECURSIVE Pow2(_)
Pow2(k) == IF k = 0 THEN 1 ELSE 2 * Pow2(k - 1)

\* the 53-bit significand is held as three limbs of 5, 24 and 24 bits
Limb == Pow2(24)

\* floor(log2(n / d)) for positive integers n, d
RECURSIVE FloorLog2(_, _)
FloorLog2(n, d) ==
    IF n < d THEN FloorLog2(2 * n, d) - 1
    ELSE IF n >= 2 * d THEN FloorLog2(n, 2 * d) + 1
    ELSE 0

F64Zero == [cls |-> "zero", exp |-> 0, mant |-> <<0, 0, 0>>]
F64Inf  == [cls |-> "inf",  exp |-> 0, mant |-> <<0, 0, 0>>]
F64NaN  == [cls |-> "nan",  exp |-> 0, mant |-> <<0, 0, 0>>]
F64One  == [cls |-> "num",  exp |-> 0, mant |-> <<16, 0, 0>>]

\* the next representable value above significand m at exponent e
NextUp(m, e) ==
    LET c0 == IF m[3] + 1 = Limb THEN 1 ELSE 0
        c1 == IF m[2] + c0 = Limb THEN 1 ELSE 0
        hi == m[1] + c1
    IN  IF hi = 32
        THEN [cls |-> "num", exp |-> e + 1, mant |-> <<16, 0, 0>>]
        ELSE [cls |-> "num", exp |-> e,
              mant |-> <<hi, (m[2] + c0) % Limb, (m[3] + 1) % Limb>>]

\* round to nearest, ties to even: m is the truncated significand, `above`
\* and `tie` say where the discarded part lies relative to half an ulp
RoundNearestEven(m, e, above, tie) ==
    IF above \/ (tie /\ m[3] % 2 = 1) THEN NextUp(m, e)
    ELSE [cls |-> "num", exp |-> e, mant |-> m]

\* f64 division of two integer-valued f64 (the parsed file contents)
F64Div(b, max) ==
    IF max = 0 THEN (IF b = 0 THEN F64NaN ELSE F64Inf)
    ELSE IF b = 0 THEN F64Zero
    ELSE LET e  == FloorLog2(b, max)
             n  == IF e < 0 THEN b * Pow2(-e) ELSE b
             d  == IF e > 0 THEN max * Pow2(e) ELSE max
             q2 == (16 * n) \div d
             r2 == (16 * n) % d
             q1 == (r2 * Limb) \div d
             r1 == (r2 * Limb) % d
             q0 == (r1 * Limb) \div d
             r0 == (r1 * Limb) % d
         IN  RoundNearestEven(<<q2, q1, q0>>, e, 2 * r0 > d, 2 * r0 = d)

\* f64 multiplication by the literal 100.
F64Mul100(x) ==
    IF x.cls # "num" THEN x
    ELSE LET p0   == x.mant[3] * 100
             p1   == x.mant[2] * 100 + p0 \div Limb
             p2   == x.mant[1] * 100 + p1 \div Limb
             l1   == p1 % Limb
             l0   == p0 % Limb
             s    == IF p2 >= 2048 THEN 7 ELSE 6
             cut  == Pow2(s)
             up   == Pow2(24 - s)
             m    == << p2 \div cut,
                        (p2 % cut) * up + l1 \div cut,
                        (l1 % cut) * up + l0 \div cut >>
             lost == l0 % cut
         IN  RoundNearestEven(m, x.exp + s, 2 * lost > cut, 2 * lost = cut)

\* `as u8`: truncation toward zero, saturating, NaN to 0
AsU8(x) ==
    CASE x.cls = "nan"  -> 0
      [] x.cls = "zero" -> 0
      [] x.cls = "inf"  -> U8Max
      [] OTHER ->
           IF x.exp < 0 THEN 0
           ELSE IF x.exp >= 8 THEN U8Max
           ELSE IF x.exp <= 4 THEN x.mant[1] \div Pow2(4 - x.exp)
           ELSE x.mant[1] * Pow2(x.exp - 4)
                + x.mant[2] \div Pow2(28 - x.exp)

\* 0.0 <= x <= 1.0 (false of NaN)
InUnitInterval(x) ==
    \/ x.cls = "zero"
    \/ x.cls = "num" /\ (x.exp < 0 \/ x = F64One)

(***************************************************************************)
(* Pure pieces of handler, main and notify                                 *)
(***************************************************************************)
\* what a file holds for read_val: a number, or nothing read_to_string and
\* parse accept (the file is unreadable, or its text is no number)
Number(n) == [ok |-> TRUE, val |-> n]
Bad       == [ok |-> FALSE, val |-> 0]

\* read_val: read_to_string(path).unwrap().trim().parse().unwrap()
ReadValPanics(content) == ~content.ok

\* let perc = b / max;
Perc(b, max) == F64Div(b, max)

\* a drain that keeps the first Some instead of the last
LastOfFirst(acc, item) == IF IsSome(acc) THEN acc ELSE item

\* (0..10).filter_map(..).last(): the most recent Some
LastOf(acc, item) == IF IsSome(item) THEN item ELSE acc

\* an or with its sides swapped: Some(x).or(s)
OrSomeSwapped(sv, xv) == Some(xv)

\* s.or(Some(x))
OrSome(sv, xv) == IF IsSome(sv) THEN sv ELSE Some(xv)

\* unwrap_or_default in the place of unwrap_or(v)
UnwrapOrDefault(sp, dflt) == IF IsSome(sp) THEN sp[1] ELSE F64Zero

\* spam.unwrap_or(v)
UnwrapOr(sp, dflt) == IF IsSome(sp) THEN sp[1] ELSE dflt

\* the element of a one-element set
TheOne(S) == CHOOSE r \in S : TRUE

\* (fval * 100.) as u8: the product is computed once, then converted
Percentage(fval) == TheOne({AsU8(scaled) : scaled \in {F64Mul100(fval)}})

\* Display of a u8: its decimal digits
DigitChar(d) == <<"0", "1", "2", "3", "4", "5", "6", "7", "8", "9">>[d + 1]

RECURSIVE Decimal(_)
Decimal(n) ==
    IF n < 10 THEN <<DigitChar(n)>>
    ELSE Decimal(n \div 10) \o <<DigitChar(n % 10)>>

\* format!("{} {}%", conf.message, (fval * 100.) as u8)
Message(msg, fval) ==
    <<msg, " ">> \o TheOne({Decimal(p) : p \in {Percentage(fval)}}) \o <<"%">>

\* a notify() that forgets the icon it was given
BuildNotificationNoIcon(message, title, icon, timeout) ==
    [ timeout |-> timeout,
      urgency |-> "Low",
      id      |-> NotificationId,
      appname |-> "Blight notify",
      summary |-> title,
      body    |-> message,
      icon    |-> "auto_icon" ]

\* the Notification built by notify()
BuildNotification(message, title, icon, timeout) ==
    [ timeout |-> timeout,
      urgency |-> "Low",
      id      |-> NotificationId,
      appname |-> "Blight notify",
      summary |-> title,
      body    |-> message,
      icon    |-> IF IsSome(icon) THEN icon[1] ELSE "auto_icon" ]

\* Config as argh builds it: the defaults, with or without -i
Configs ==
    { [ title   |-> "Blight",
        message |-> "Brightness adjusted:",
        icon    |-> ic,
        timeout |-> DefaultTimeout ] : ic \in {None, Some("my-icon")} }

(***************************************************************************)
(* State                                                                   *)
(***************************************************************************)
VARIABLES
    conf,           \* Config
    pc,             \* where the main thread is
    bl_paths,       \* watch: number of brightness paths collected
    watched,        \* paths registered with the watcher so far
    poll,           \* the watcher's polling thread: "none", "running", "panicked"
    senders,        \* TRUE while a Sender of the channel is alive
    chan,           \* the mpsc channel: values sent and not yet received
    v, x, s, i,     \* main: v, x, the drain's last Some, the drain's iteration
    spam,           \* main: spam
    \* history of the current cycle (from one blocking receive to the next)
    cycleSeen,      \* the values received
    cycleCount,     \* how many values were received
    lastRecv,       \* the value received last
    cycleSleeps,    \* how many times the cycle slept
    sentAfterDrain, \* a value was sent after the cycle's last read
    cycleNotifs,    \* notifier calls
    call,           \* the Notification handed to show(), with its result
    errLogged,      \* error!() ran for the notifier call
    \* history of the run
    lastSent,       \* the value sent last
    sentSet,        \* the values sent so far
    everReceived,   \* a value was received
    everNotified,   \* the notifier was called
    dropped,        \* a change event ended in a handler panic
    startupFailed,  \* init_watcher or watch failed
    \* SpecNum
    nb, nmax,       \* the contents of brightness and max_brightness
    nstage,         \* "files", "perc", "body"
    nperc,          \* perc
    nbody,          \* message
    \* SpecTrace: the run as an observer of the handler and the notifier sees it
    ev,             \* the handler's last invocation
    sentSeq,        \* the values sent on the channel, in the order of the
                    \* sends, each with the device it was read from
    notifSeq,       \* the values passed to the notifier, in the order of the calls
    \* SpecSched: the loop of main on a clock, against an arrival schedule
    sched,          \* the arrival time of each value, in sleeps of 150 ms
    ref,            \* the loop of main
    alt             \* the loop with a drain that ends at the first empty read

startVars  == <<conf, bl_paths, watched>>
locals     == <<v, x, s, i, spam>>
chanVars   == <<poll, senders, chan>>
readHist   == <<cycleSeen, cycleCount, lastRecv, everReceived>>
sendHist   == <<lastSent, sentSet, sentAfterDrain>>
notifHist  == <<cycleNotifs, call, errLogged, everNotified>>
numVars    == <<nb, nmax, nstage, nperc, nbody>>
progVars   == <<startVars, pc, locals, chanVars, readHist, notifHist,
                cycleSleeps, sendHist, dropped, startupFailed, numVars>>
traceVars  == <<ev, sentSeq, notifSeq>>
schedVars  == <<sched, ref, alt>>
vars       == <<progVars, traceVars, schedVars>>

\* what the handler finds in brightness and in max_brightness under Spec
BrightnessContents    == {Number(n) : n \in 0..MaxLevel} \cup {Bad}
MaxBrightnessContents == {Number(n) : n \in 1..MaxLevel} \cup {Bad}

\* the main thread has left main (the process is gone)
Exited == pc \in {"panicked", "exit_err"}

MainInit ==
    /\ conf \in Configs
    /\ pc = "init_watcher"
    /\ bl_paths = 0
    /\ watched = 0
    /\ poll = "none"
    /\ senders = FALSE
    /\ chan = <<>>
    /\ v = None /\ x = None /\ s = None /\ i = 0 /\ spam = None
    /\ cycleSeen = {}
    /\ cycleCount = 0
    /\ lastRecv = None
    /\ cycleSleeps = 0
    /\ sentAfterDrain = FALSE
    /\ cycleNotifs = 0
    /\ call = None
    /\ errLogged = FALSE
    /\ lastSent = None
    /\ sentSet = {}
    /\ everReceived = FALSE
    /\ everNotified = FALSE
    /\ dropped = FALSE
    /\ startupFailed = FALSE

\* no handler invocation observed yet
NoEvent ==
    [kind |-> "none", n |-> 0, paths |-> <<>>, read |-> <<>>, sent |-> <<>>]

\* nothing observed
TraceInit ==
    /\ ev = NoEvent
    /\ sentSeq = <<>>
    /\ notifSeq = <<>>

\* a loop on the clock before its first receive
LoopInit ==
    [pc |-> "recv", v |-> None, x |-> None, s |-> None, i |-> 0,
     spam |-> None, now |-> 0, next |-> 1, out |-> <<>>,
     emptyRead |-> FALSE, gap |-> FALSE]

\* no schedule is run
SchedInit ==
    /\ sched = <<>>
    /\ ref = LoopInit
    /\ alt = LoopInit

Init ==
    /\ MainInit
    /\ TraceInit
    /\ SchedInit
    /\ nb = 0 /\ nmax = 0 /\ nstage = "off" /\ nperc = F64Zero /\ nbody = <<>>

(***************************************************************************)
(* Startup: main lines 58-59                                               *)
(***************************************************************************)
\* init_watcher: the channel is created, the Sender moves into the handler
\* closure, PollWatcher::new(..).unwrap() starts the polling thread or panics
InitWatcher ==
    /\ pc = "init_watcher"
    /\ \E ok \in BOOLEAN :
         IF ok
         THEN /\ pc' = "read_dir"
              /\ poll' = "running"
              /\ senders' = TRUE
              /\ UNCHANGED startupFailed
         ELSE /\ pc' = "panicked"
              /\ startupFailed' = TRUE
              /\ UNCHANGED <<poll, senders>>
    /\ UNCHANGED <<startVars, locals, chan, readHist, notifHist,
                   cycleSleeps, sendHist, dropped, numVars>>

\* watch: read_dir("/sys/class/backlight").unwrap() and the collect of the
\* brightness paths
ReadDir ==
    /\ pc = "read_dir"
    /\ \/ /\ pc' = "panicked"
          /\ startupFailed' = TRUE
          /\ UNCHANGED bl_paths
       \/ /\ \E n \in 0..NumDevices : bl_paths' = n
          /\ pc' = "watch"
          /\ UNCHANGED startupFailed
    /\ UNCHANGED <<conf, watched, locals, chanVars, readHist, notifHist,
                   cycleSleeps, sendHist, dropped, numVars>>

\* a watch whose error is dropped instead of returned
WatchResultIgnored(ok) ==
    IF ok
    THEN /\ watched' = watched + 1
         /\ UNCHANGED <<pc, startupFailed>>
    ELSE /\ watched' = watched + 1
         /\ startupFailed' = TRUE
         /\ UNCHANGED pc

\* what main does with the result of watcher.watch(&p, ..)? for one path
WatchResult(ok) ==
    IF ok
    THEN /\ watched' = watched + 1
         /\ UNCHANGED <<pc, startupFailed>>
    ELSE /\ pc' = "exit_err"
         /\ startupFailed' = TRUE
         /\ UNCHANGED watched

\* watch: one iteration of `for p in bl_paths`
WatchPath ==
    /\ pc = "watch"
    /\ watched < bl_paths
    /\ \E ok \in BOOLEAN : WatchResult(ok)
    /\ UNCHANGED <<conf, bl_paths, locals, chanVars, readHist, notifHist,
                   cycleSleeps, sendHist, dropped, numVars>>

\* watch returns Ok(()): main enters the loop
WatchDone ==
    /\ pc = "watch"
    /\ watched = bl_paths
    /\ pc' = "recv"
    /\ UNCHANGED <<startVars, locals, chanVars, readHist, notifHist,
                   cycleSleeps, sendHist, dropped, startupFailed, numVars>>

(***************************************************************************)
(* The handler, run by the watcher's polling thread                        *)
(***************************************************************************)
\* an event's paths: one or more of the watched paths
EventPaths ==
    UNION { [1..n -> 1..watched] : n \in 1..MaxPaths }

\* the path the handler takes from the event: event.paths.pop().unwrap()
PoppedPath(paths) == paths[Len(paths)]

\* a channel that hands out the newest value first
SendFront(q, val) == <<val>> \o q

\* s.send(perc): the value joins the end of the channel's queue
Send(q, val) == Append(q, val)

\* what the handler does once both files are read: send, or unwind
HandlerOutcome(b, max) ==
    IF ReadValPanics(b) \/ ReadValPanics(max)
    THEN /\ poll' = "panicked"
         /\ dropped' = TRUE
         /\ UNCHANGED <<chan, sendHist>>
    ELSE /\ chan' = Send(chan, Perc(b.val, max.val))
         /\ lastSent' = Some(Perc(b.val, max.val))
         /\ sentSet' = sentSet \cup {Perc(b.val, max.val)}
         /\ sentAfterDrain' = (sentAfterDrain \/ pc \in {"notify", "recv"})
         /\ UNCHANGED <<poll, dropped>>

\* handler(Ok(event), s): the last path is popped, brightness and
\* max_brightness beside it are read
HandlerOk ==
    /\ poll = "running" /\ senders /\ ~Exited
    /\ watched > 0
    /\ Len(chan) < MaxChan
    /\ \E paths \in EventPaths :
       \E b \in BrightnessContents, max \in MaxBrightnessContents :
         HandlerOutcome(b, max)
    /\ UNCHANGED <<startVars, pc, locals, senders, readHist, notifHist,
                   cycleSleeps, startupFailed, numVars>>

\* a handler that unwraps the event: ev.unwrap()
HandlerErrUnwraps ==
    /\ poll = "running" /\ senders /\ ~Exited
    /\ poll' = "panicked"
    /\ dropped' = TRUE
    /\ UNCHANGED <<startVars, pc, locals, senders, chan, readHist, notifHist,
                   cycleSleeps, sendHist, startupFailed, numVars>>

\* handler(Err(_), s): nothing happens
HandlerErr ==
    /\ poll = "running" /\ senders /\ ~Exited
    /\ UNCHANGED progVars

\* the watcher lets go of the handler closure, and with it of the Sender
WatcherDropsHandler ==
    /\ senders /\ ~Exited
    /\ senders' = FALSE
    /\ UNCHANGED <<startVars, pc, locals, poll, chan, readHist, notifHist,
                   cycleSleeps, sendHist, dropped, startupFailed, numVars>>

(***************************************************************************)
(* The coalescer: the loop of main, lines 60-79                            *)
(***************************************************************************)
\* a read that leaves the value it returns in the channel
ReceivedPeek(val) ==
    /\ chan' = chan
    /\ cycleSeen' = cycleSeen \cup {val}
    /\ cycleCount' = cycleCount + 1
    /\ lastRecv' = Some(val)
    /\ everReceived' = TRUE

\* one more value taken off the channel by the current cycle
Received(val) ==
    /\ chan' = Tail(chan)
    /\ cycleSeen' = cycleSeen \cup {val}
    /\ cycleCount' = cycleCount + 1
    /\ lastRecv' = Some(val)
    /\ everReceived' = TRUE

\* a receive whose Err becomes a default value: unwrap_or_default()
RecvErrDefault ==
    /\ pc' = "probe"
    /\ v' = Some(F64Zero)
    /\ UNCHANGED <<chan, readHist, notifHist, cycleSleeps, sentAfterDrain>>

\* r.recv() returned Err: `?` returns it from main
RecvErr ==
    /\ pc' = "exit_err"
    /\ UNCHANGED <<v, chan, readHist, notifHist, cycleSleeps, sentAfterDrain>>

\* let v = r.recv()?;  blocks while the channel is empty and a Sender lives
Recv ==
    /\ pc = "recv"
    /\ IF chan # <<>>
       THEN /\ v' = Some(Head(chan))
            /\ pc' = "probe"
            /\ chan' = Tail(chan)
            /\ cycleSeen' = {Head(chan)}
            /\ cycleCount' = 1
            /\ lastRecv' = Some(Head(chan))
            /\ everReceived' = TRUE
            /\ cycleSleeps' = 0
            /\ sentAfterDrain' = FALSE
            /\ cycleNotifs' = 0
            /\ call' = None
            /\ errLogged' = FALSE
            /\ UNCHANGED everNotified
       ELSE /\ ~senders
            /\ RecvErr
    /\ UNCHANGED <<startVars, x, s, i, spam, poll, senders, lastSent, sentSet,
                   dropped, startupFailed, numVars>>

\* a probe that enters the drain phase although it found nothing
ProbeEmptyDrains ==
    /\ x' = v
    /\ s' = None
    /\ i' = 0
    /\ pc' = "sleep"
    /\ UNCHANGED <<spam, chan, readHist>>

\* the branch taken when the probe finds nothing: spam = None
ProbeEmpty ==
    /\ spam' = None
    /\ pc' = "notify"
    /\ UNCHANGED <<x, s, i, chan, readHist>>

\* if let Ok(x) = r.try_recv() { .. } else { None }
Probe ==
    /\ pc = "probe"
    /\ IF chan # <<>>
       THEN /\ x' = Some(Head(chan))
            /\ s' = None
            /\ i' = 0
            /\ pc' = "sleep"
            /\ Received(Head(chan))
            /\ UNCHANGED spam
       ELSE ProbeEmpty
    /\ UNCHANGED <<startVars, v, poll, senders, notifHist, cycleSleeps,
                   sendHist, dropped, startupFailed, numVars>>

\* thread::sleep(Duration::from_millis(150))
Sleep ==
    /\ pc = "sleep"
    /\ pc' = "drain"
    /\ cycleSleeps' = cycleSleeps + 1
    /\ UNCHANGED <<startVars, locals, chanVars, readHist, notifHist,
                   sendHist, dropped, startupFailed, numVars>>

\* a drain of one iteration: (0..1)
DrainDoneAfterOne(n, item) == n >= 1

\* a drain that also ends at the first read that finds nothing
DrainDoneOnEmpty(n, item) == n >= DrainIters \/ ~IsSome(item)

\* the drain ends when the range 0..10 is used up, after n iterations;
\* filter_map drops a None item and goes on
DrainDone(n, item) == n >= DrainIters

\* r.try_recv().ok() of one iteration, folded into .last(); after the last
\* iteration, s.or(Some(x)) becomes spam
DrainRead ==
    /\ pc = "drain"
    /\ LET item == IF chan # <<>> THEN Some(Head(chan)) ELSE None
           acc  == LastOf(s, item)
       IN  /\ s' = acc
           /\ i' = i + 1
           /\ IF chan # <<>>
              THEN Received(Head(chan))
              ELSE UNCHANGED <<chan, readHist>>
           /\ IF DrainDone(i + 1, item)
              THEN /\ spam' = OrSome(acc, x[1])
                   /\ pc' = "notify"
              ELSE /\ pc' = "sleep"
                   /\ UNCHANGED spam
    /\ UNCHANGED <<startVars, v, x, poll, senders, notifHist, cycleSleeps,
                   sendHist, dropped, startupFailed, numVars>>

\* a loop that returns the notifier's error: notify(..)?
AfterNotifyPropagates(result) ==
    /\ errLogged' = FALSE
    /\ cycleNotifs' = cycleNotifs + 1
    /\ pc' = IF result = "err" THEN "exit_err" ELSE "recv"

\* what main does with the result of notify(..): log an error, go on
AfterNotify(result) ==
    /\ errLogged' = (result = "err")
    /\ cycleNotifs' = cycleNotifs + 1
    /\ pc' = "recv"

\* the first value of the cycle in the place of fval
FvalFirst == v[1]

\* let fval = spam.unwrap_or(v);
Fval == UnwrapOr(spam, v[1])

\* lines 74-78: fval, message, notify(..), and the end of the loop body
Notify ==
    /\ pc = "notify"
    /\ LET message == Message(conf.message, Fval)
           notif   == BuildNotification(message, conf.title, conf.icon,
                                        conf.timeout)
       IN  \E result \in {"ok", "err"} :
             /\ call' = Some([notif |-> notif, fval |-> Fval,
                              result |-> result])
             /\ AfterNotify(result)
    /\ everNotified' = TRUE
    /\ v' = None /\ x' = None /\ s' = None /\ i' = 0 /\ spam' = None
    /\ UNCHANGED <<startVars, chanVars, readHist, cycleSleeps, sendHist,
                   dropped, startupFailed, numVars>>

\* the daemon; nothing is traced
Next ==
    \/ InitWatcher /\ UNCHANGED <<traceVars, schedVars>>
    \/ ReadDir /\ UNCHANGED <<traceVars, schedVars>>
    \/ WatchPath /\ UNCHANGED <<traceVars, schedVars>>
    \/ WatchDone /\ UNCHANGED <<traceVars, schedVars>>
    \/ HandlerOk /\ UNCHANGED <<traceVars, schedVars>>
    \/ HandlerErr /\ UNCHANGED <<traceVars, schedVars>>
    \/ WatcherDropsHandler /\ UNCHANGED <<traceVars, schedVars>>
    \/ Recv /\ UNCHANGED <<traceVars, schedVars>>
    \/ Probe /\ UNCHANGED <<traceVars, schedVars>>
    \/ Sleep /\ UNCHANGED <<traceVars, schedVars>>
    \/ DrainRead /\ UNCHANGED <<traceVars, schedVars>>
    \/ Notify /\ UNCHANGED <<traceVars, schedVars>>

Spec == Init /\ [][Next]_vars

(***************************************************************************)
(* SpecTrace: the running daemon with its handler and notifier observed.   *)
(* Startup is over: NumDevices paths are watched, main is at the blocking  *)
(* receive.  Every change is one brightness step up, so that the k-th      *)
(* value sent is read from a file holding k; device d has max_brightness   *)
(* MaxEvents + d - 1, so that every value sent differs from every other    *)
(* and tells the device it was read from.                                  *)
(***************************************************************************)
\* the number in max_brightness of device d
DevMax(d) == MaxEvents + d - 1

\* the number in brightness as the next change event finds it
Level == Len(sentSeq) + 1

\* what read_val finds in the two files of device d: the number, or
\* nothing it can read or parse
LevelContents       == {Number(Level), Bad}
DevMaxContents(d)   == {Number(DevMax(d)), Bad}

InitTrace ==
    /\ conf \in Configs
    /\ pc = "recv"
    /\ bl_paths = NumDevices
    /\ watched = NumDevices
    /\ poll = "running"
    /\ senders = TRUE
    /\ chan = <<>>
    /\ v = None /\ x = None /\ s = None /\ i = 0 /\ spam = None
    /\ cycleSeen = {}
    /\ cycleCount = 0
    /\ lastRecv = None
    /\ cycleSleeps = 0
    /\ sentAfterDrain = FALSE
    /\ cycleNotifs = 0
    /\ call = None
    /\ errLogged = FALSE
    /\ lastSent = None
    /\ sentSet = {}
    /\ everReceived = FALSE
    /\ everNotified = FALSE
    /\ dropped = FALSE
    /\ startupFailed = FALSE
    /\ TraceInit
    /\ SchedInit
    /\ nb = 0 /\ nmax = 0 /\ nstage = "off" /\ nperc = F64Zero /\ nbody = <<>>

\* what the step added to the end of the channel
Sent == SubSeq(chan', Len(chan) + 1, Len(chan'))

\* the values the step sent, each with the device whose files were read
SentFrom(d) == [j \in 1..Len(Sent) |-> [val |-> Sent[j], dev |-> d]]

\* handler(Ok(event), s) observed: the event's paths, the path whose files
\* were read, the values sent
THandlerOk ==
    /\ poll = "running" /\ senders /\ ~Exited
    /\ watched > 0
    /\ ev.n < MaxEvents
    /\ \E paths \in EventPaths :
         LET p == PoppedPath(paths)
         IN  \E b \in LevelContents, max \in DevMaxContents(p) :
               /\ HandlerOutcome(b, max)
               /\ ev' = [kind |-> "ok", n |-> ev.n + 1, paths |-> paths,
                         read |-> <<p>>, sent |-> Sent]
               /\ sentSeq' = sentSeq \o SentFrom(p)
    /\ UNCHANGED <<startVars, pc, locals, senders, readHist, notifHist,
                   cycleSleeps, startupFailed, numVars, notifSeq, schedVars>>

\* handler(Err(_), s) observed
THandlerErr ==
    /\ ev.n < MaxEvents
    /\ HandlerErr
    /\ ev' = [kind |-> "err", n |-> ev.n + 1, paths |-> <<>>,
              read |-> <<>>, sent |-> Sent]
    /\ sentSeq' = sentSeq \o SentFrom(0)
    /\ UNCHANGED <<notifSeq, schedVars>>

\* the notifier call observed
TNotify ==
    /\ Notify
    /\ notifSeq' = Append(notifSeq, call'[1].fval)
    /\ UNCHANGED <<ev, sentSeq, schedVars>>

\* the coalescer
Coalescer ==
    \/ Recv /\ UNCHANGED <<traceVars, schedVars>>
    \/ Probe /\ UNCHANGED <<traceVars, schedVars>>
    \/ Sleep /\ UNCHANGED <<traceVars, schedVars>>
    \/ DrainRead /\ UNCHANGED <<traceVars, schedVars>>
    \/ TNotify

NextTrace ==
    \/ THandlerOk
    \/ THandlerErr
    \/ Coalescer

SpecTrace == InitTrace /\ [][NextTrace]_vars

\* the main thread is scheduled again and again; the notifier call returns
SpecLive == SpecTrace /\ WF_vars(Coalescer)

(***************************************************************************)
(* SpecSched: the loop of main on a clock.  The values arrive on the       *)
(* channel at the times of a schedule, counted in sleeps of 150 ms; reads  *)
(* and the notifier call take no time, a sleep takes one tick, the         *)
(* blocking receive waits for the next arrival.  A value that arrives at   *)
(* tick t is there for a read at tick t.  The loop is run on the schedule  *)
(* twice: as main has it, and with a drain that ends at the first read     *)
(* that finds nothing.                                                     *)
(***************************************************************************)
\* the arrival times of 1..MaxArrivals values, in the order of arrival
Schedules ==
    { sq \in UNION { [1..n -> 0..MaxTick] : n \in 1..MaxArrivals } :
        \A k \in 1..Len(sq) - 1 : sq[k] <= sq[k + 1] }

\* the k-th value of the schedule: brightness k of MaxArrivals
Value(k) == Perc(k, MaxArrivals)

\* the next value of the schedule is in the channel
Arrived(c) == c.next <= Len(sched) /\ sched[c.next] <= c.now

\* the loop blocks in r.recv() for good: the schedule is used up
Finished(c) == c.pc = "recv" /\ c.next > Len(sched)

\* let v = r.recv()?;  the clock moves to the arrival when it is ahead
TimedRecv(c) ==
    [c EXCEPT !.pc = "probe",
              !.v = Some(Value(c.next)),
              !.now = IF sched[c.next] > c.now THEN sched[c.next] ELSE c.now,
              !.next = c.next + 1,
              !.emptyRead = FALSE]

\* if let Ok(x) = r.try_recv() { .. } else { None }
TimedProbe(c) ==
    IF Arrived(c)
    THEN [c EXCEPT !.pc = "sleep", !.x = Some(Value(c.next)),
                   !.next = c.next + 1, !.s = None, !.i = 0]
    ELSE [c EXCEPT !.pc = "notify", !.spam = None]

\* thread::sleep(Duration::from_millis(150))
TimedSleep(c) == [c EXCEPT !.pc = "drain", !.now = c.now + 1]

\* r.try_recv().ok() of the drain
DrainItem(c) == IF Arrived(c) THEN Some(Value(c.next)) ELSE None

\* one iteration of the drain, folded into .last(); done says whether the
\* drain ends with this iteration
TimedDrainRead(c, done) ==
    LET item == DrainItem(c)
        acc  == LastOf(c.s, item)
    IN  [c EXCEPT !.s = acc,
                  !.i = c.i + 1,
                  !.next = IF IsSome(item) THEN c.next + 1 ELSE c.next,
                  !.gap = c.gap \/ (c.emptyRead /\ IsSome(item)),
                  !.emptyRead = c.emptyRead \/ ~IsSome(item),
                  !.spam = IF done THEN OrSome(acc, c.x[1]) ELSE c.spam,
                  !.pc = IF done THEN "notify" ELSE "sleep"]

\* fval = spam.unwrap_or(v), the notifier call, the end of the loop body
TimedNotify(c) ==
    [c EXCEPT !.out = Append(c.out, UnwrapOr(c.spam, c.v[1])),
              !.pc = "recv",
              !.v = None, !.x = None, !.s = None, !.i = 0, !.spam = None]

\* one step of the loop
TimedStep(c, done) ==
    CASE c.pc = "recv"   -> TimedRecv(c)
      [] c.pc = "probe"  -> TimedProbe(c)
      [] c.pc = "sleep"  -> TimedSleep(c)
      [] c.pc = "drain"  -> TimedDrainRead(c, done)
      [] c.pc = "notify" -> TimedNotify(c)

InitSched ==
    /\ MainInit
    /\ TraceInit
    /\ nb = 0 /\ nmax = 0 /\ nstage = "off" /\ nperc = F64Zero /\ nbody = <<>>
    /\ sched \in Schedules
    /\ ref = LoopInit
    /\ alt = LoopInit

\* the loop of main takes a step
RefStep ==
    /\ ~Finished(ref)
    /\ ref' = TimedStep(ref, DrainDone(ref.i + 1, DrainItem(ref)))
    /\ UNCHANGED <<progVars, traceVars, sched, alt>>

\* after it, the loop with the early end of the drain takes its steps
AltStep ==
    /\ Finished(ref)
    /\ ~Finished(alt)
    /\ alt' = TimedStep(alt, DrainDoneOnEmpty(alt.i + 1, DrainItem(alt)))
    /\ UNCHANGED <<progVars, traceVars, sched, ref>>

NextSched == RefStep \/ AltStep

SpecSched == InitSched /\ [][NextSched]_vars

(***************************************************************************)
(* SpecNum: the arithmetic alone.  The files hold nb and nmax; the handler *)
(* computes perc, main formats the message from it.                        *)
(***************************************************************************)
InitNum ==
    /\ MainInit
    /\ TraceInit
    /\ SchedInit
    /\ nb \in 0..MaxRaw
    /\ nmax \in 0..MaxRaw
    /\ nstage = "files"
    /\ nperc = F64Zero
    /\ nbody = <<>>

\* handler, lines 153-156
NumHandler ==
    /\ nstage = "files"
    /\ nperc' = Perc(nb, nmax)
    /\ nstage' = "perc"
    /\ UNCHANGED <<startVars, pc, locals, chanVars, readHist, notifHist,
                   cycleSleeps, sendHist, dropped, startupFailed,
                   nb, nmax, nbody>>

\* main, lines 74-75, on the value the handler sent
NumMessage ==
    /\ nstage = "perc"
    /\ nbody' = Message(conf.message, nperc)
    /\ nstage' = "body"
    /\ UNCHANGED <<startVars, pc, locals, chanVars, readHist, notifHist,
                   cycleSleeps, sendHist, dropped, startupFailed,
                   nb, nmax, nperc>>

NextNum ==
    \/ NumHandler /\ UNCHANGED <<traceVars, schedVars>>
    \/ NumMessage /\ UNCHANGED <<traceVars, schedVars>>

SpecNum == InitNum /\ [][NextNum]_vars

(***************************************************************************)
(* Properties                                                              *)
(***************************************************************************)
\* the cycle that ended is a burst: it received two values or more
BurstCycle == pc = "recv" /\ cycleCount >= 2

\* C1 as stated: every burst whose values were all sent by the end of the
\* drain slots gets one notification for the whole burst (nothing of it is
\* left in the channel for another one), carrying the last value sent.
C1_WholeBurstOnce ==
    (BurstCycle /\ ~sentAfterDrain)
        => /\ cycleNotifs = 1
           /\ chan = <<>>
           /\ call[1].fval = lastSent[1]

\* C1 amended: a cycle never calls the notifier twice, a burst cycle calls it
\* once, and when the drain reads consumed the whole burst (the channel is
\* empty after the last read) its notification carries the last value sent.
C1_BurstCoalesced ==
    /\ cycleNotifs <= 1
    /\ BurstCycle => cycleNotifs = 1
    /\ (BurstCycle /\ ~sentAfterDrain /\ chan = <<>>)
           => call[1].fval = lastSent[1]

C1_Witness ==
    /\ BurstCycle /\ ~sentAfterDrain /\ chan = <<>>
    /\ cycleCount >= 3
    /\ Cardinality(cycleSeen) = 2
    /\ cycleNotifs = 1
    /\ call[1].fval = lastSent[1]

\* C2: when the probe finds the channel empty (the cycle received v alone),
\* the cycle notifies exactly v, has slept 0 times when it does, calls the
\* notifier once and is back at the blocking receive.
C2_IsolatedEvent ==
    /\ (pc = "notify" /\ cycleCount = 1)
           => (cycleSleeps = 0 /\ Fval = v[1] /\ cycleSeen = {v[1]})
    /\ (cycleCount = 1 /\ IsSome(call))
           => /\ cycleSleeps = 0
              /\ cycleNotifs = 1
              /\ cycleSeen = {call[1].fval}
              /\ pc \in {"recv", "exit_err"}

C2_Witness ==
    /\ pc = "recv" /\ cycleCount = 1 /\ cycleSleeps = 0
    /\ cycleNotifs = 1
    /\ IsSome(call) /\ cycleSeen = {call[1].fval}

\* C3: the value a cycle passes to the notifier is one of the values that
\* cycle received from the channel, and every value received or queued was
\* sent by a handler invocation.
C3_NeverSynthesized ==
    /\ pc = "notify" => Fval \in cycleSeen
    /\ IsSome(call) => call[1].fval \in cycleSeen
    /\ cycleSeen \subseteq sentSet
    /\ \A k \in 1..Len(chan) : chan[k] \in sentSet

C3_Witness ==
    /\ IsSome(call) /\ call[1].fval \in cycleSeen
    /\ cycleCount >= 3
    /\ Cardinality(cycleSeen) = 2

\* C4 as stated: every fraction the handler computes from the two files, and
\* so every value that reaches the notifier, lies in [0.0, 1.0].
C4_UnitRange ==
    nstage \in {"perc", "body"} => InUnitInterval(nperc)

\* C5: a cycle receives at most 12 values; one that received 12 (every drain
\* read found a value) has slept 10 times, calls the notifier once with the
\* value of the 10th drain read; the call leaves the channel as it is and
\* the loop is back at the blocking receive.
C5_BurstTruncation ==
    /\ [](/\ cycleCount <= 12
          /\ cycleSleeps <= 10
          /\ (pc = "notify" /\ cycleCount = 12)
                => (cycleSleeps = 10 /\ Fval = lastRecv[1])
          /\ (pc = "recv" /\ cycleCount = 12)
                => (cycleNotifs = 1 /\ call[1].fval = lastRecv[1]))
    /\ [][(pc = "notify" /\ pc' # "notify")
              => (pc' = "recv" /\ chan' = chan
                  /\ cycleNotifs' = cycleNotifs + 1)]_vars

C5_Witness ==
    /\ pc = "recv" /\ cycleCount = 12 /\ cycleSleeps = 10
    /\ cycleNotifs = 1
    /\ call[1].fval = lastRecv[1]
    /\ chan # <<>>

\* C6 as stated: an event whose files cannot be read or parsed is dropped
\* and the watch goes on: the polling thread still runs, so later events
\* are still handled.
C6_WatchSurvives ==
    dropped => poll = "running"

\* C7: after a notifier error the error is logged, the notifier was called
\* once in the cycle, and the loop is at the blocking receive; the loop is
\* only ever left through a failed blocking receive (channel empty and no
\* Sender), never through the notifier's error.
C7_NotifierErrorRecoverable ==
    /\ (IsSome(call) /\ call[1].result = "err")
           => /\ errLogged
              /\ cycleNotifs = 1
              /\ pc \in {"recv", "exit_err"}
    /\ (pc = "exit_err" /\ ~startupFailed) => (chan = <<>> /\ ~senders)
    /\ (pc = "panicked") => startupFailed

C7_Witness ==
    /\ pc = "recv" /\ IsSome(call) /\ call[1].result = "err"
    /\ errLogged /\ cycleNotifs = 1
    /\ chan # <<>> /\ senders

\* C8: a step that leaves the blocking receive with the channel empty is
\* the failed receive: no Sender is left, main returns the error, and no
\* notifier call is made; once main has returned nothing of it moves again.
C8_ChannelFailureFatal ==
    [][/\ (pc = "recv" /\ pc' # "recv" /\ chan = <<>>)
             => (~senders /\ pc' = "exit_err" /\ UNCHANGED notifHist)
       /\ Exited => UNCHANGED <<pc, locals, notifHist, readHist>>]_vars

C8_Witness ==
    /\ pc = "exit_err" /\ ~startupFailed
    /\ ~senders /\ chan = <<>>
    /\ everNotified

\* C9: when init_watcher, read_dir or a watch registration fails, main has
\* ended with a failure (a panic or a returned error), and no value was ever
\* received and no notifier call ever made.
C9_StartupFatal ==
    startupFailed
        => /\ Exited
           /\ ~everReceived /\ ~everNotified
           /\ call = None /\ cycleCount = 0

C9_Witness ==
    /\ startupFailed /\ pc = "exit_err"
    /\ watched >= 1
    /\ chan # <<>>

\* floor(100 * current / maximum), computed exactly
ExactPercent(current, maximum) == (100 * current) \div maximum

\* C10 as stated: for maximum > 0 and current <= maximum the percentage in
\* the message is floor(current / maximum * 100), an integer in 0..100, and
\* the message is "<message> <percentage>%".
C10_FloorPercent ==
    (nstage = "body" /\ nmax > 0 /\ nb <= nmax)
        => /\ ExactPercent(nb, nmax) \in 0..100
           /\ nbody = <<conf.message, " ">>
                          \o Decimal(ExactPercent(nb, nmax)) \o <<"%">>

\* C12: every notification handed to show() has the id 696969, the
\* application name "Blight notify" and low urgency, the configured title as
\* summary, the cycle's message as body and the configured timeout; its icon
\* is the configured icon when there is one and the automatic icon otherwise.
C12_FixedAttributes ==
    IsSome(call)
        => /\ call[1].notif.id = 696969
           /\ call[1].notif.appname = "Blight notify"
           /\ call[1].notif.urgency = "Low"
           /\ call[1].notif.summary = conf.title
           /\ call[1].notif.body = Message(conf.message, call[1].fval)
           /\ call[1].notif.timeout = conf.timeout
           /\ call[1].notif.icon =
                  (IF conf.icon = None THEN "auto_icon" ELSE conf.icon[1])

C12_Witness ==
    /\ IsSome(call)
    /\ conf.icon # None
    /\ call[1].notif.icon = "my-icon"
    /\ call[1].notif.id = 696969
    /\ cycleCount >= 2

\* C13: when the cycle is about to notify and its probe returned x, the
\* settled value is the value of the last drain read that found one (the
\* cycle received three values or more), else x (it received v and x only);
\* the settled value is taken from v only when the probe found nothing.
C13_SettledValue ==
    pc = "notify"
        => /\ (IsSome(x) /\ cycleCount >= 3) => Fval = lastRecv[1]
           /\ (IsSome(x) /\ cycleCount = 2) => Fval = x[1]
           /\ IsSome(x) <=> cycleCount >= 2
           /\ IsSome(x) <=> IsSome(spam)
           /\ ~IsSome(x) => Fval = v[1]

C13_Witness ==
    /\ pc = "notify" /\ IsSome(x)
    /\ cycleCount >= 3
    /\ Fval = lastRecv[1]
    /\ Fval # x[1] /\ Fval # v[1]

\* C14: a cycle whose probe returned a value notifies only after 10 sleeps
\* and 10 drain reads, however many of the reads found the channel empty;
\* while fewer than 10 reads are done the cycle is still in the drain phase.
C14_NoEarlyExit ==
    /\ (pc = "notify" /\ cycleCount >= 2) => (cycleSleeps = 10 /\ i = 10)
    /\ (IsSome(call) /\ cycleCount >= 2) => cycleSleeps = 10
    /\ pc \in {"sleep", "drain"} => (i < 10 /\ cycleCount >= 2)
    /\ pc = "sleep" => cycleSleeps = i
    /\ pc = "drain" => cycleSleeps = i + 1

C14_Witness ==
    /\ pc = "recv" /\ cycleCount = 2
    /\ cycleSleeps = 10
    /\ cycleNotifs = 1

\* the last element of a non-empty sequence
Last(sq) == sq[Len(sq)]

\* the values of the sends, in their order
SentValues == [k \in 1..Len(sentSeq) |-> sentSeq[k].val]

\* the place of a value among the sends (every value is sent once)
IndexOf(val) == CHOOSE k \in 1..Len(sentSeq) : sentSeq[k].val = val

\* the devices the values of the current cycle were read from
CycleDevices == {sentSeq[IndexOf(val)].dev : val \in cycleSeen}

\* C11: every value sent is the fraction of the device whose event was
\* handled, the channel holds the values not yet received in the order of
\* their sends whatever their devices, and a cycle that received two values
\* or more, of one device or of both, makes one notifier call, which carries
\* the value sent last among those the cycle received.
C11_DeviceAgnostic ==
    /\ \A k \in 1..Len(sentSeq) :
          /\ sentSeq[k].dev \in 1..NumDevices
          /\ sentSeq[k].val = F64Div(k, DevMax(sentSeq[k].dev))
    /\ chan = SubSeq(SentValues, Len(sentSeq) - Len(chan) + 1, Len(sentSeq))
    /\ (pc = "recv" /\ cycleCount >= 2)
          => /\ cycleNotifs = 1
             /\ call[1].fval \in cycleSeen
             /\ \A val \in cycleSeen : IndexOf(val) <= IndexOf(call[1].fval)
             /\ Last(notifSeq) = call[1].fval

C11_Witness ==
    /\ pc = "recv" /\ cycleCount >= 3
    /\ CycleDevices = 1..NumDevices
    /\ Len(sentSeq) >= 3
    /\ sentSeq[1].dev # sentSeq[2].dev /\ sentSeq[2].dev # sentSeq[3].dev
    /\ Len(notifSeq) = 1
    /\ notifSeq[1] = sentSeq[cycleCount].val

\* C16 as stated: after the handler ran on an event with one path or more,
\* the files read are those of the event's last path alone, and exactly one
\* value was sent for the event.
C16_SinglePath ==
    ev.kind = "ok"
        => /\ ev.read = <<Last(ev.paths)>>
           /\ Len(ev.sent) = 1

\* C17: the values passed to the notifier are values that were sent, each
\* taken from a later send than the one before it (so none twice), and the
\* notifier calls are no more than the sends.
C17_OrderPreserved ==
    /\ \A j, k \in 1..Len(sentSeq) :
          sentSeq[j].val = sentSeq[k].val => j = k
    /\ \A j \in 1..Len(notifSeq) :
          \E k \in 1..Len(sentSeq) : notifSeq[j] = sentSeq[k].val
    /\ \A j \in 1..Len(notifSeq) - 1 :
          IndexOf(notifSeq[j]) < IndexOf(notifSeq[j + 1])
    /\ Len(notifSeq) <= Len(sentSeq)

C17_Witness ==
    /\ Len(notifSeq) = 2
    /\ Len(sentSeq) = 4
    /\ IndexOf(notifSeq[1]) = 2
    /\ IndexOf(notifSeq[2]) = 4

\* the loop is at the blocking receive, nothing is queued, and the last
\* notifier call carried the value sent last
Settled ==
    /\ pc = "recv"
    /\ chan = <<>>
    /\ sentSeq # <<>> => (notifSeq # <<>> /\ Last(notifSeq) = Last(sentSeq).val)

\* C18: a run has MaxEvents handler invocations at most, so its sends stop;
\* the coalescer then comes to rest at the blocking receive with the channel
\* empty and its last notifier call carrying the value sent last, and stays
\* there.
C18_Convergence == <>[]Settled

C18_Witness ==
    /\ Settled
    /\ Len(sentSeq) >= 3
    /\ Len(notifSeq) >= 2
    /\ poll = "running"

\* C19: a handler invocation with an error result reads no file, sends
\* nothing and returns: the polling thread, the channel and the state of
\* main are as before it.
C19_ErrorEventIgnored ==
    [][(ev'.n # ev.n /\ ev'.kind = "err")
          => /\ ev'.read = <<>>
             /\ ev'.sent = <<>>
             /\ UNCHANGED <<poll, senders, chan, pc, locals>>
             /\ UNCHANGED <<sentSeq, notifSeq, dropped>>]_vars

C19_Witness ==
    /\ ev.kind = "err"
    /\ chan # <<>>
    /\ pc = "drain"
    /\ poll = "running"

\* both loops have run the whole schedule
BothFinished == Finished(ref) /\ Finished(alt)

\* C15 as stated: on every arrival schedule, the loop whose drain ends at
\* the first empty read settles the same sequence of values as the loop of
\* main.
C15_EarlyBreakEquivalent ==
    BothFinished => alt.out = ref.out

\* C15 amended: on every arrival schedule on which no drain read of main's
\* loop finds a value after an earlier drain read of the same cycle found
\* nothing, the two loops settle the same sequence of values, and the loop
\* with the early end is done no later.
C15_EquivalentWithoutGap ==
    (BothFinished /\ ~ref.gap)
        => /\ alt.out = ref.out
           /\ alt.now <= ref.now

C15_Witness ==
    /\ BothFinished /\ ~ref.gap
    /\ Len(ref.out) = 2
    /\ alt.out = ref.out
    /\ alt.now < ref.now
    /\ Len(sched) = 4

====
